---- MODULE Spec2Model ----
(***************************************************************************)
(* Model of src/main.py: ImageResizer.resize_image (the size-constrained   *)
(* encoding search) and ResizeWorker (the batch thread with its signals    *)
(* and its cooperative stop flag).                                         *)
(*                                                                         *)
(* Sizes are bytes.  The scale factor, a float in the source, is kept in   *)
(* millionths (ScaleUnit = 1.0); the twelve values 0.9^n the loop can      *)
(* reach are all further than 0.01 from the 0.3 threshold, so the          *)
(* fixed-point truncation never changes a comparison.                      *)
(***************************************************************************)
EXTENDS Integers, Sequences, FiniteSets, TLC

\* ---------------------------------------------------------------- bounds
MaxFiles == 2
MaxCount == 19

\* ------------------------------------------------------ program constants
InitialQuality == 90
min_quality == 10
MaxQuality == 95
QualityStep == 5
ScaleUnit == 1000000
MinScale == 300000
KB == 1024

Min2(a, b) == IF a < b THEN a ELSE b
Max2(a, b) == IF a > b THEN a ELSE b

\* ------------------------------------------------------------ file paths
\* The paths a caller may put in the list handed to ResizeWorker.
Paths == {"d1/a.jpg", "d2/a.jpg", "d1/b.PNG", "d1/c.txt", "d1/readme"}

\* os.path.basename
basename(p) ==
    CASE p = "d1/a.jpg" -> "a.jpg"
      [] p = "d2/a.jpg" -> "a.jpg"
      [] p = "d1/b.PNG" -> "b.PNG"
      [] p = "d1/c.txt" -> "c.txt"
      [] p = "d1/readme" -> "readme"

\* os.path.splitext(p)[1]
splitext(p) ==
    CASE p = "d1/a.jpg" -> ".jpg"
      [] p = "d2/a.jpg" -> ".jpg"
      [] p = "d1/b.PNG" -> ".PNG"
      [] p = "d1/c.txt" -> ".txt"
      [] p = "d1/readme" -> ""

\* str.lower on the extensions above
lower(e) ==
    CASE e = ".PNG" -> ".png"
      [] OTHER -> e

SupportedExts == {".jpg", ".jpeg", ".png", ".bmp", ".webp"}

Supported_All(p) == TRUE
\* the extension filter of ResizeWorker.run
Supported(p) == lower(splitext(p)) \in SupportedExts

\* os.path.join(self.output_dir, file_name), relative to the output directory
OutputPath(p) == basename(p)
OutPaths == {basename(p) : p \in Paths}

\* ------------------------------------------------------------- the codec
\* What Image.open may find in a file: an image of width x height pixels
\* (both at least 4, so that no resampled dimension is 0) whose encoded size is
\*   max(floor, base + qgain * (quality-10)/5 - sloss * (1.0-scale)/0.01),
\* non-increasing as quality decreases and as scale decreases.
Images ==
    { [base |-> 200000,     qgain |-> 10000,   sloss |-> 1000,  floor |-> 500,
         width |-> 2000, height |-> 1500],
      [base |-> 3000000,    qgain |-> 1000,    sloss |-> 100,   floor |-> 500,
         width |-> 12, height |-> 7],
      [base |-> 1000,       qgain |-> 100,     sloss |-> 0,     floor |-> 500,
         width |-> 640, height |-> 480],
      [base |-> -14950000,  qgain |-> 1000000, sloss |-> 0,     floor |-> 50000,
         width |-> 1000, height |-> 15],
      [base |-> 500000,     qgain |-> 50000,   sloss |-> 1000,  floor |-> 500,
         width |-> 1500, height |-> 2000],
      [base |-> 1500000,    qgain |-> 10000,   sloss |-> 20000, floor |-> 500,
         width |-> 1000, height |-> 1000],
      [base |-> 1100000,    qgain |-> 100,     sloss |-> 109000, floor |-> 10000,
         width |-> 15, height |-> 4],
      [base |-> 1100000,    qgain |-> 200000,  sloss |-> 109000, floor |-> 10000,
         width |-> 7, height |-> 12],
      [base |-> 888576,     qgain |-> 10000,   sloss |-> 1000,  floor |-> 500,
         width |-> 640, height |-> 480],
      [base |-> 888577,     qgain |-> 10000,   sloss |-> 1000,  floor |-> 500,
         width |-> 480, height |-> 640] }

\* The images tried in lists of several files: one in the band at once, one
\* above it at every quality and scale, one below it at every quality.
BatchImages ==
    { [base |-> 200000,     qgain |-> 10000,   sloss |-> 1000,  floor |-> 500,
         width |-> 2000, height |-> 1500],
      [base |-> 3000000,    qgain |-> 1000,    sloss |-> 100,   floor |-> 500,
         width |-> 12, height |-> 7],
      [base |-> 1000,       qgain |-> 100,     sloss |-> 0,     floor |-> 500,
         width |-> 640, height |-> 480] }

\* A list of one file is explored with every image, a longer one with the
\* three above.
ImagePool(fs) == IF Len(fs) <= 1 THEN Images ELSE BatchImages

NoImage == [base |-> 0, qgain |-> 0, sloss |-> 0, floor |-> 0, width |-> 0, height |-> 0]

\* resized_img.save(...) followed by os.path.getsize(temp_output)
EncodedSize(m, q, s) ==
    Max2(m.floor,
         m.base + m.qgain * ((q - min_quality) \div QualityStep)
                - m.sloss * ((ScaleUnit - s) \div 10000))

\* ------------------------------------------------------------------ band
Bands == { <<100, 1024>>, <<900, 1000>> }

min_size_bytes(band) == band[1] * KB
max_size_bytes(band) == band[2] * KB

\* the three-way comparison of lines 67 and 72
InBand(sz, band) == min_size_bytes(band) <= sz /\ sz <= max_size_bytes(band)
TooLarge(sz, band) == sz > max_size_bytes(band)

\* scale_factor *= 0.9
ReduceScaleFactor(s) == (s * 9) \div 10
BelowMinScale_Quarter(s) == s < 250000
\* scale_factor < 0.3
BelowMinScale(s) == s < MinScale

\* int((i + 1) / len(self.files) * 100), with i + 1 = k; the float product
\* truncates to the same integer as the exact quotient for every len <= 12
Progress(k, n) == (k * 100) \div n

\* ----------------------------------------------------------------- state
NoFile == [quality |-> 0, scale |-> 0, size |-> -1]
PartialFile == [quality |-> 0, scale |-> 0, size |-> 0]
NoStop == [n |-> -1, phase |-> "none"]

VARIABLES
    files,            \* self.files
    target_size_kb,   \* self.target_size_kb
    running,          \* self.running
    pc,               \* position of the worker thread in run / resize_image
    idx,              \* i + 1 of the enumerate loop (0 before the first item)
    results,          \* results
    emitted,          \* the signals emitted so far, in order
    calls,            \* the calls of resize_image made so far, with how each ended
    stop_at,          \* where the worker was when stop() was called
    img,              \* img (the decoded image)
    quality,          \* quality
    scale_factor,     \* scale_factor, in millionths
    file_size,        \* file_size
    ret,              \* the pair returned by resize_image
    disk,             \* the files at the output paths
    temp,             \* the files at "<output_path>.temp"
    attempts,         \* encode attempts at the current scale level
    levels,           \* scale levels at which an encode was attempted
    resamples,        \* calls of img.resize
    resized_size,     \* resized_img.size
    min_size_slider,  \* ImageResizerApp.min_size_slider.value()
    max_size_slider,  \* ImageResizerApp.max_size_slider.value()
    app_target_size_kb, \* ImageResizerApp.target_size_kb
    jobs,             \* ResizeWorker threads started by the two tabs
    overlapped        \* a worker was started while the previous one was running

vars == <<files, target_size_kb, running, pc, idx, results, emitted, calls,
          stop_at, img, quality, scale_factor, file_size, ret, disk, temp,
          attempts, levels, resamples, resized_size, min_size_slider,
          max_size_slider, app_target_size_kb, jobs, overlapped>>

batch == <<files, target_size_kb, idx, results, emitted>>
locals == <<img, quality, scale_factor, file_size, resized_size>>
counters == <<attempts, levels, resamples>>
sliders == <<min_size_slider, max_size_slider, app_target_size_kb>>
app == <<min_size_slider, max_size_slider, app_target_size_kb, jobs, overlapped>>

BoundedSeq(S, n) == UNION { [1..k -> S] : k \in 0..n }

file_path == files[idx]
output_path == OutputPath(file_path)

Init ==
    /\ files \in BoundedSeq(Paths, MaxFiles)
    /\ target_size_kb \in Bands
    /\ running = TRUE
    /\ pc = "for"
    /\ idx = 0
    /\ results = <<>>
    /\ emitted = <<>>
    /\ calls = <<>>
    /\ stop_at = NoStop
    /\ img = NoImage
    /\ quality = 0
    /\ scale_factor = 0
    /\ file_size = 0
    /\ ret = <<FALSE, 0>>
    /\ disk = [o \in OutPaths |-> NoFile]
    /\ temp = [o \in OutPaths |-> NoFile]
    /\ attempts = 0
    /\ levels = 0
    /\ resamples = 0
    /\ resized_size = <<0, 0>>
    /\ min_size_slider = 100
    /\ max_size_slider = 1024
    /\ app_target_size_kb = <<100, 1024>>
    /\ jobs = 0
    /\ overlapped = FALSE

\* ------------------------------------------------------ ResizeWorker.stop
Phase(p) ==
    CASE p = "for" -> "check"
      [] p = "filter" -> "checked"
      [] p \in {"emit_completed", "done"} -> "over"
      [] OTHER -> "inflight"

Stop ==
    /\ running
    /\ running' = FALSE
    /\ stop_at' = [n |-> Len(results), phase |-> Phase(pc)]
    /\ UNCHANGED <<app, batch, pc, calls, locals, ret, disk, temp, counters>>

\* ------------------------------------------------------- ResizeWorker.run
\* for i, file_path in enumerate(self.files): the list is exhausted
ForExhausted ==
    /\ pc = "for"
    /\ idx = Len(files)
    /\ pc' = "emit_completed"
    /\ UNCHANGED <<app, batch, running, calls, stop_at, locals, ret, disk, temp, counters>>

ForBreak_Return ==
    /\ pc = "for"
    /\ idx < Len(files)
    /\ ~running
    /\ idx' = idx + 1
    /\ pc' = "done"
    /\ UNCHANGED <<app, files, target_size_kb, results, emitted, running, calls,
                   stop_at, locals, ret, disk, temp, counters>>

\* the next item is taken and self.running is found cleared: break
ForBreak ==
    /\ pc = "for"
    /\ idx < Len(files)
    /\ ~running
    /\ idx' = idx + 1
    /\ pc' = "emit_completed"
    /\ UNCHANGED <<app, files, target_size_kb, results, emitted, running, calls,
                   stop_at, locals, ret, disk, temp, counters>>

ForNext_Unchecked ==
    /\ pc = "for"
    /\ idx < Len(files)
    /\ idx' = idx + 1
    /\ pc' = "filter"
    /\ UNCHANGED <<app, files, target_size_kb, results, emitted, running, calls,
                   stop_at, locals, ret, disk, temp, counters>>

\* the next item is taken and self.running is set
ForNext ==
    /\ pc = "for"
    /\ idx < Len(files)
    /\ running
    /\ idx' = idx + 1
    /\ pc' = "filter"
    /\ UNCHANGED <<app, files, target_size_kb, results, emitted, running, calls,
                   stop_at, locals, ret, disk, temp, counters>>

\* the extension is not a supported one: continue
Skip ==
    /\ pc = "filter"
    /\ ~Supported(file_path)
    /\ pc' = "for"
    /\ UNCHANGED <<app, batch, running, calls, stop_at, locals, ret, disk, temp, counters>>

\* the extension is supported: resize_image is called
Call ==
    /\ pc = "filter"
    /\ Supported(file_path)
    /\ calls' = Append(calls, [i |-> idx, err |-> "none"])
    /\ pc' = "open"
    /\ UNCHANGED <<app, batch, running, stop_at, locals, ret, disk, temp, counters>>

\* ------------------------------------------- ImageResizer.resize_image
MarkError(e) == [calls EXCEPT ![Len(calls)].err = e]

\* Image.open succeeds; the search starts at quality 90, scale 1.0
Open ==
    /\ pc = "open"
    /\ \E m \in ImagePool(files) : img' = m
    /\ quality' = InitialQuality
    /\ scale_factor' = ScaleUnit
    /\ attempts' = 0
    /\ levels' = 0
    /\ resamples' = 0
    /\ resized_size' = <<0, 0>>
    /\ pc' = "encode"
    /\ UNCHANGED <<app, batch, running, calls, stop_at, file_size, ret, disk, temp>>

OpenRaise_Skip ==
    /\ pc = "open"
    /\ calls' = MarkError("decode")
    /\ pc' = "for"
    /\ UNCHANGED <<app, batch, running, stop_at, locals, ret, disk, temp, counters>>

\* Image.open raises: except Exception -> return False, 0
OpenRaise ==
    /\ pc = "open"
    /\ calls' = MarkError("decode")
    /\ ret' = <<FALSE, 0>>
    /\ pc' = "append"
    /\ UNCHANGED <<app, batch, running, stop_at, locals, disk, temp, counters>>

NeedsResample_Always(s) == s <= ScaleUnit
\* if scale_factor < 1.0: img.resize(...)
NeedsResample(s) == s < ScaleUnit

NewSize_Rounded(w, s) == (w * s + ScaleUnit \div 2) \div ScaleUnit
\* int(width * scale_factor)
NewSize(w, s) == (w * s) \div ScaleUnit

\* one pass of lines 52-64: resample when scaled, save to the temporary
\* file, read its size
Encode ==
    /\ pc = "encode"
    /\ LET sz == EncodedSize(img, quality, scale_factor) IN
        /\ temp' = [temp EXCEPT ![output_path] =
                       [quality |-> quality, scale |-> scale_factor, size |-> sz]]
        /\ file_size' = sz
    /\ resized_size' = IF NeedsResample(scale_factor)
                       THEN <<NewSize(img.width, scale_factor),
                              NewSize(img.height, scale_factor)>>
                       ELSE <<img.width, img.height>>
    /\ resamples' = IF NeedsResample(scale_factor)
                    THEN Min2(resamples + 1, MaxCount) ELSE resamples
    /\ attempts' = Min2(attempts + 1, MaxCount)
    /\ levels' = IF attempts = 0 THEN levels + 1 ELSE levels
    /\ pc' = "decide"
    /\ UNCHANGED <<app, batch, running, calls, stop_at, img, quality, scale_factor,
                   ret, disk>>

\* img.resize or resized_img.save raises; the temporary file may or may not
\* have been created by then
EncodeRaise ==
    /\ pc = "encode"
    /\ \E left \in {temp[output_path], PartialFile} :
           temp' = [temp EXCEPT ![output_path] = left]
    /\ calls' = MarkError("encode")
    /\ ret' = <<FALSE, 0>>
    /\ pc' = "append"
    /\ UNCHANGED <<app, batch, running, stop_at, locals, disk, counters>>

\* shutil.move(temp_output, output_path)
MoveTemp ==
    /\ disk' = [disk EXCEPT ![output_path] = temp[output_path]]
    /\ temp' = [temp EXCEPT ![output_path] = NoFile]

\* os.remove(temp_output) at the end of a pass that goes on
RemoveTemp == temp' = [temp EXCEPT ![output_path] = NoFile]

CanRaiseQuality_Ninety(q) == q < InitialQuality
CanRaiseQuality_Inclusive(q) == q <= MaxQuality
\* quality < 95
CanRaiseQuality(q) == q < MaxQuality
CanLowerQuality_Twenty(q) == q > 20
\* quality > min_quality
CanLowerQuality(q) == q > min_quality

\* min_size_bytes <= file_size <= max_size_bytes: move and return True
ReturnInBand ==
    /\ pc = "decide"
    /\ InBand(file_size, target_size_kb)
    /\ MoveTemp
    /\ ret' = <<TRUE, file_size>>
    /\ pc' = "append"
    /\ UNCHANGED <<app, batch, running, calls, stop_at, locals, counters>>

\* too large, quality above the minimum: quality -= 5
LowerQuality ==
    /\ pc = "decide"
    /\ ~InBand(file_size, target_size_kb)
    /\ TooLarge(file_size, target_size_kb)
    /\ CanLowerQuality(quality)
    /\ quality' = quality - QualityStep
    /\ RemoveTemp
    /\ pc' = "encode"
    /\ UNCHANGED <<app, batch, running, calls, stop_at, img, scale_factor, file_size,
                   resized_size,
                   ret, disk, counters>>

\* too large at minimum quality: scale_factor *= 0.9, still >= 0.3
ReduceScale ==
    /\ pc = "decide"
    /\ ~InBand(file_size, target_size_kb)
    /\ TooLarge(file_size, target_size_kb)
    /\ ~CanLowerQuality(quality)
    /\ ~BelowMinScale(ReduceScaleFactor(scale_factor))
    /\ scale_factor' = ReduceScaleFactor(scale_factor)
    /\ attempts' = 0
    /\ RemoveTemp
    /\ pc' = "encode"
    /\ UNCHANGED <<app, batch, running, calls, stop_at, img, quality, file_size,
                   resized_size,
                   ret, disk, levels, resamples>>

\* too large at minimum quality and the reduced scale is below 0.3:
\* move the last artefact and return False
GiveUp ==
    /\ pc = "decide"
    /\ ~InBand(file_size, target_size_kb)
    /\ TooLarge(file_size, target_size_kb)
    /\ ~CanLowerQuality(quality)
    /\ BelowMinScale(ReduceScaleFactor(scale_factor))
    /\ scale_factor' = ReduceScaleFactor(scale_factor)
    /\ MoveTemp
    /\ ret' = <<FALSE, file_size>>
    /\ pc' = "append"
    /\ UNCHANGED <<app, batch, running, calls, stop_at, img, quality, file_size,
                   resized_size,
                   counters>>

\* too small, quality below 95: quality += 5
RaiseQuality ==
    /\ pc = "decide"
    /\ ~InBand(file_size, target_size_kb)
    /\ ~TooLarge(file_size, target_size_kb)
    /\ CanRaiseQuality(quality)
    /\ quality' = quality + QualityStep
    /\ RemoveTemp
    /\ pc' = "encode"
    /\ UNCHANGED <<app, batch, running, calls, stop_at, img, scale_factor, file_size,
                   resized_size,
                   ret, disk, counters>>

\* too small at quality 95: move and return True
AcceptUnderMin ==
    /\ pc = "decide"
    /\ ~InBand(file_size, target_size_kb)
    /\ ~TooLarge(file_size, target_size_kb)
    /\ ~CanRaiseQuality(quality)
    /\ MoveTemp
    /\ ret' = <<TRUE, file_size>>
    /\ pc' = "append"
    /\ UNCHANGED <<app, batch, running, calls, stop_at, locals, counters>>

\* the pass ends in one of the three shutil.move calls
Moves ==
    \/ InBand(file_size, target_size_kb)
    \/ /\ TooLarge(file_size, target_size_kb)
       /\ ~CanLowerQuality(quality)
       /\ BelowMinScale(ReduceScaleFactor(scale_factor))
    \/ /\ ~TooLarge(file_size, target_size_kb)
       /\ ~CanRaiseQuality(quality)

MoveRaise_Escapes ==
    /\ pc = "decide"
    /\ Moves
    /\ calls' = MarkError("move")
    /\ pc' = "done"
    /\ UNCHANGED <<app, batch, running, stop_at, locals, ret, disk, temp, counters>>

\* shutil.move raises: the temporary file stays, return False, 0
MoveRaise ==
    /\ pc = "decide"
    /\ Moves
    /\ calls' = MarkError("move")
    /\ ret' = <<FALSE, 0>>
    /\ pc' = "append"
    /\ UNCHANGED <<app, batch, running, stop_at, locals, disk, temp, counters>>

\* ------------------------------------------- ResizeWorker.run, continued
\* results.append((file_path, output_path, success, file_size))
AppendResult ==
    /\ pc = "append"
    /\ results' = Append(results, <<file_path, output_path, ret[1], ret[2]>>)
    /\ img' = NoImage
    /\ quality' = 0
    /\ scale_factor' = 0
    /\ file_size' = 0
    /\ attempts' = 0
    /\ levels' = 0
    /\ resamples' = 0
    /\ resized_size' = <<0, 0>>
    /\ pc' = "emit_progress"
    /\ UNCHANGED <<app, files, target_size_kb, idx, emitted, running, calls, stop_at,
                   ret, disk, temp>>

\* self.progress_updated.emit(progress)
EmitProgress ==
    /\ pc = "emit_progress"
    /\ emitted' = Append(emitted, [sig |-> "progress_updated",
                                   args |-> <<Progress(idx, Len(files))>>])
    /\ pc' = "emit_file"
    /\ UNCHANGED <<app, files, target_size_kb, idx, results, running, calls, stop_at,
                   locals, ret, disk, temp, counters>>

\* self.file_processed.emit(file_name, success, file_size)
EmitFileProcessed ==
    /\ pc = "emit_file"
    /\ emitted' = Append(emitted, [sig |-> "file_processed",
                                   args |-> <<basename(file_path), ret[1], ret[2]>>])
    /\ pc' = "for"
    /\ UNCHANGED <<app, files, target_size_kb, idx, results, running, calls, stop_at,
                   locals, ret, disk, temp, counters>>

\* self.resize_completed.emit(results)
EmitCompleted ==
    /\ pc = "emit_completed"
    /\ emitted' = Append(emitted, [sig |-> "resize_completed", args |-> <<results>>])
    /\ pc' = "done"
    /\ UNCHANGED <<app, files, target_size_kb, idx, results, running, calls, stop_at,
                   locals, ret, disk, temp, counters>>

Next ==
    \/ Stop
    \/ ForExhausted
    \/ ForBreak
    \/ ForNext
    \/ Skip
    \/ Call
    \/ Open
    \/ OpenRaise
    \/ Encode
    \/ EncodeRaise
    \/ ReturnInBand
    \/ LowerQuality
    \/ ReduceScale
    \/ GiveUp
    \/ RaiseQuality
    \/ AcceptUnderMin
    \/ MoveRaise
    \/ AppendResult
    \/ EmitProgress
    \/ EmitFileProcessed
    \/ EmitCompleted

Spec == Init /\ [][Next]_vars

\* ------------------------------------------------------ ImageResizerApp
MaxJobs == 2

MinSliderLow == 50
MinSliderHigh == 900
MaxSliderLow == 100
MaxSliderHigh == 2048
MinGap == 100

\* the positions the user drags the two sliders to
MinStops == {100, 900}
MaxStops == {100, 1024}

\* QSlider.setValue: the value is bounded to the slider's range
SliderBound(v, lo, hi) == Max2(lo, Min2(v, hi))

\* min_val after update_target_size
MinVal(mn, mx) == IF mn >= mx THEN mx - MinGap ELSE mn

\* update_target_size with the sliders at mn and mx: when min >= max the min
\* slider is set to max - 100 (bounded to its range; the nested
\* valueChanged call stores a band that the outer call then overwrites) and
\* the band (max - 100, max) is stored
update_target_size(mn, mx) ==
    /\ min_size_slider' =
           IF mn >= mx
           THEN SliderBound(mx - MinGap, MinSliderLow, MinSliderHigh) ELSE mn
    /\ max_size_slider' = mx
    /\ app_target_size_kb' = <<MinVal(mn, mx), mx>>

workerState == <<files, target_size_kb, running, pc, idx, results, emitted, calls,
                 stop_at, img, quality, scale_factor, file_size, resized_size,
                 ret, attempts, levels, resamples>>

MinSliderMoved_Shared ==
    /\ \E v \in MinStops :
          /\ v # min_size_slider
          /\ update_target_size(v, max_size_slider)
    /\ target_size_kb' = app_target_size_kb'
    /\ UNCHANGED <<files, running, pc, idx, results, emitted, calls,
                   stop_at, img, quality, scale_factor, file_size, resized_size,
                   ret, attempts, levels, resamples, disk, temp, jobs, overlapped>>

\* min_size_slider.valueChanged, the user having moved the slider
MinSliderMoved ==
    /\ \E v \in MinStops :
          /\ v # min_size_slider
          /\ update_target_size(v, max_size_slider)
    /\ UNCHANGED <<workerState, disk, temp, jobs, overlapped>>

\* max_size_slider.valueChanged, the user having moved the slider
MaxSliderMoved ==
    /\ \E v \in MaxStops :
          /\ v # max_size_slider
          /\ update_target_size(min_size_slider, v)
    /\ UNCHANGED <<workerState, disk, temp, jobs, overlapped>>

\* the worker self.parent.resize_worker refers to has not finished
WorkerActive == pc \notin {"idle", "done"}

\* self.parent.resize_worker = ResizeWorker(fs, output_dir,
\* self.parent.target_size_kb) and .start(), with an empty directory chosen
\* as output_dir; from then on the model follows the new worker
StartWorker(fs) ==
    /\ jobs < MaxJobs
    /\ jobs' = jobs + 1
    /\ overlapped' = (overlapped \/ WorkerActive)
    /\ files' = fs
    /\ target_size_kb' = app_target_size_kb
    /\ running' = TRUE
    /\ pc' = "for"
    /\ idx' = 0
    /\ results' = <<>>
    /\ emitted' = <<>>
    /\ calls' = <<>>
    /\ stop_at' = NoStop
    /\ img' = NoImage
    /\ quality' = 0
    /\ scale_factor' = 0
    /\ file_size' = 0
    /\ resized_size' = <<0, 0>>
    /\ ret' = <<FALSE, 0>>
    /\ attempts' = 0
    /\ levels' = 0
    /\ resamples' = 0
    /\ disk' = [o \in OutPaths |-> NoFile]
    /\ temp' = [o \in OutPaths |-> NoFile]
    /\ UNCHANGED sliders

\* SingleImageTab.select_image with both dialogs accepted (the name filter
\* of the dialog does not keep the user from entering another file name)
SelectImage ==
    \E p \in Paths :
        /\ p # ""
        /\ StartWorker(<<p>>)

Folders == {"d1", "d2"}
\* the files os.walk finds under a folder
Walk(d) ==
    CASE d = "d1" -> <<"d1/a.jpg", "d1/b.PNG", "d1/c.txt", "d1/readme">>
      [] d = "d2" -> <<"d2/a.jpg">>

\* FolderTab.select_folder with both dialogs accepted
SelectFolder ==
    \E d \in Folders :
        LET image_files == SelectSeq(Walk(d), Supported) IN
        /\ image_files # <<>>
        /\ StartWorker(image_files)

InitApp ==
    /\ min_size_slider = 100
    /\ max_size_slider = 1024
    /\ app_target_size_kb = <<100, 1024>>
    /\ jobs = 0
    /\ overlapped = FALSE
    /\ pc = "idle"
    /\ files = <<>>
    /\ target_size_kb = <<100, 1024>>
    /\ running = FALSE
    /\ idx = 0
    /\ results = <<>>
    /\ emitted = <<>>
    /\ calls = <<>>
    /\ stop_at = NoStop
    /\ img = NoImage
    /\ quality = 0
    /\ scale_factor = 0
    /\ file_size = 0
    /\ resized_size = <<0, 0>>
    /\ ret = <<FALSE, 0>>
    /\ disk = [o \in OutPaths |-> NoFile]
    /\ temp = [o \in OutPaths |-> NoFile]
    /\ attempts = 0
    /\ levels = 0
    /\ resamples = 0

\* the application: stop() has no caller in it, so self.running stays set
\* and the break of the loop is never taken
NextApp ==
    \/ MinSliderMoved
    \/ MaxSliderMoved
    \/ SelectImage
    \/ SelectFolder
    \/ ForExhausted
    \/ ForNext
    \/ Skip
    \/ Call
    \/ Open
    \/ OpenRaise
    \/ Encode
    \/ EncodeRaise
    \/ ReturnInBand
    \/ LowerQuality
    \/ ReduceScale
    \/ GiveUp
    \/ RaiseQuality
    \/ AcceptUnderMin
    \/ MoveRaise
    \/ AppendResult
    \/ EmitProgress
    \/ EmitFileProcessed
    \/ EmitCompleted

SpecApp == InitApp /\ [][NextApp]_vars

\* ------------------------------------------------------------ properties
\* the call of resize_image in progress, or just returned
ThisCall == calls[Len(calls)]
Returned == pc = "append"
min_bytes == min_size_bytes(target_size_kb)
max_bytes == max_size_bytes(target_size_kb)

Qualities == { min_quality + QualityStep * k : k \in 0..17 }
RECURSIVE ScaleAt(_)
ScaleAt(n) == IF n = 0 THEN ScaleUnit ELSE ReduceScaleFactor(ScaleAt(n - 1))
Scales == { ScaleAt(n) : n \in 0..11 }

\* C1: the search loop makes at most 17 encode attempts at one scale level
\* and visits at most 12 scale levels (so it cannot go on forever).
C1_BoundedSearch == attempts <= 17 /\ levels <= 12

\* C2: whenever resize_image returns achieved = true with size sz, sz is at
\* most max_bytes, and sz is at least min_bytes unless the artefact was
\* encoded at quality 95.
C2_AchievedWithinBand ==
    (Returned /\ ret[1]) =>
        /\ ret[2] <= max_bytes
        /\ disk[output_path].size = ret[2]
        /\ \/ min_bytes <= ret[2]
           \/ disk[output_path].quality = 95

C2_Witness ==
    /\ Returned
    /\ ret[1]
    /\ ret[2] < min_bytes
    /\ disk[output_path].quality = 95

\* every encode attempt on image m exceeds max_bytes, down to quality 10
\* and the smallest scale
AlwaysOver(m) ==
    \A q \in Qualities, sc \in Scales : EncodedSize(m, q, sc) > max_bytes

\* C3: if every encode attempt exceeds max_bytes, resize_image returns
\* achieved = false with the size of the last artefact it encoded, and that
\* artefact, encoded at quality 10 and at a scale of at least 0.3, is the
\* non-empty file at the output path.
C3_FailureKeepsLastArtefact ==
    (Returned /\ ThisCall.err = "none" /\ AlwaysOver(img)) =>
        /\ ret[1] = FALSE
        /\ ret[2] = file_size
        /\ ret[2] > 0
        /\ disk[output_path].size = file_size
        /\ disk[output_path].quality = 10
        /\ disk[output_path].scale >= 300000
        /\ ReduceScaleFactor(disk[output_path].scale) = scale_factor
        /\ file_size = EncodedSize(img, 10, disk[output_path].scale)

C3_Witness ==
    /\ Returned
    /\ ThisCall.err = "none"
    /\ AlwaysOver(img)
    /\ ret[1] = FALSE
    /\ disk[output_path].quality = 10

\* the first attempt (quality 90, scale 1.0) on image m is inside the band
FirstInBand(m) ==
    /\ min_bytes <= EncodedSize(m, 90, ScaleUnit)
    /\ EncodedSize(m, 90, ScaleUnit) <= max_bytes

\* C4: an image whose size at quality 90, scale 1.0 lies in the band makes
\* resize_image return achieved = true with that size after exactly one
\* encode attempt and no resampling.
C4_FirstAttemptInBand ==
    (pc \in {"encode", "decide", "append"} /\ ThisCall.err = "none"
        /\ FirstInBand(img)) =>
        /\ resamples = 0
        /\ levels <= 1
        /\ pc = "encode" => attempts = 0
        /\ pc = "decide" => attempts = 1
        /\ pc = "append" =>
              /\ attempts = 1
              /\ ret = <<TRUE, EncodedSize(img, 90, ScaleUnit)>>

C4_Witness ==
    /\ Returned
    /\ ThisCall.err = "none"
    /\ FirstInBand(img)
    /\ ret[1]
    /\ attempts = 1

\* the percentages carried by the progress_updated emissions, in order
RECURSIVE ProgressValues(_)
ProgressValues(es) ==
    IF es = <<>> THEN <<>>
    ELSE LET rest == ProgressValues(SubSeq(es, 1, Len(es) - 1))
             e == es[Len(es)]
         IN IF e.sig = "progress_updated" THEN Append(rest, e.args[1]) ELSE rest

CountSig(name) == Cardinality({ k \in 1..Len(emitted) : emitted[k].sig = name })

\* an extension that, in lower case, is one of jpg, jpeg, png, bmp, webp
IsImageName(p) ==
    lower(splitext(p)) \in {".jpg", ".jpeg", ".png", ".bmp", ".webp"}
ImageIndexes == { k \in 1..Len(files) : IsImageName(files[k]) }

\* run has finished and stop() was never called
Uncancelled == pc = "done" /\ running

\* resize_completed was the last emission and carried the results list
CompletedLast ==
    /\ emitted # <<>>
    /\ emitted[Len(emitted)].sig = "resize_completed"
    /\ emitted[Len(emitted)].args[1] = results
    /\ CountSig("resize_completed") = 1

\* C5: an uncancelled run over a list with M supported files emits
\* progress_updated exactly M times, with strictly increasing percentages
\* the last of which is 100, and resize_completed carries M results.
C5_ProgressReachesHundred ==
    Uncancelled =>
        LET P == ProgressValues(emitted)
            M == Cardinality(ImageIndexes)
        IN /\ Len(P) = M
           /\ \A k \in 1..(Len(P) - 1) : P[k] < P[k + 1]
           /\ M > 0 => P[M] = 100
           /\ CompletedLast
           /\ Len(results) = M

\* C6 as stated: stop() called once file k has completed and before file
\* k+1 is passed to resize_image keeps file k+1 from being processed, and
\* resize_completed carries exactly k results.
C6_StopAfterFileK ==
    (pc = "done" /\ stop_at.phase \in {"check", "checked"}) =>
        /\ Len(calls) = stop_at.n
        /\ Len(results) = stop_at.n
        /\ CompletedLast

\* C6, amended: stop() called before the worker evaluates the running check
\* of its next iteration keeps every later file from being processed and
\* resize_completed carries exactly the results accumulated by then; called
\* anywhere else, at most one more file is completed; resize_completed is
\* the last emission of every finished run.
C6_StopBeforeCheck ==
    /\ stop_at.phase = "check" =>
          /\ Len(calls) = stop_at.n
          /\ Len(results) = stop_at.n
    /\ stop_at.phase \in {"checked", "inflight"} =>
          /\ Len(calls) <= stop_at.n + 1
          /\ Len(results) <= stop_at.n + 1
    /\ stop_at.phase = "over" => Len(results) = stop_at.n
    /\ pc = "done" => CompletedLast

C6_Witness ==
    /\ pc = "done"
    /\ stop_at.phase = "check"
    /\ stop_at.n = 1
    /\ Len(results) = 1
    /\ idx = 2
    /\ IsImageName(files[2])
    /\ CompletedLast

\* C7: a file whose extension is not a supported one is never passed to
\* resize_image, never appears in the results and causes no file_processed
\* or progress_updated emission.
C7_UnsupportedSkipped ==
    /\ \A k \in 1..Len(calls) : calls[k].i \in ImageIndexes
    /\ \A k \in 1..(Len(calls) - 1) : calls[k].i < calls[k + 1].i
    /\ Len(results) <= Len(calls)
    /\ \A k \in 1..Len(results) :
          /\ results[k][1] = files[calls[k].i]
          /\ IsImageName(results[k][1])
    /\ CountSig("progress_updated") <= Len(results)
    /\ CountSig("file_processed") <= Len(results)
    /\ \A k \in 1..Len(emitted) :
          emitted[k].sig = "file_processed" =>
              \E j \in ImageIndexes : emitted[k].args[1] = basename(files[j])
    /\ pc \in {"open", "encode", "decide", "append", "emit_progress", "emit_file"}
          => idx \in ImageIndexes

C7_Witness ==
    /\ Uncancelled
    /\ Len(files) = 2
    /\ ~IsImageName(files[1])
    /\ splitext(files[2]) = ".PNG"
    /\ Len(results) = 1

\* C8 as stated: a file that cannot be decoded gets no entry in the results.
C8_DecodeErrorSkipped ==
    pc = "done" =>
        Len(results) = Cardinality({ k \in 1..Len(calls) : calls[k].err # "decode" })

\* C8, amended: for a file that cannot be decoded resize_image returns
\* (False, 0), an outcome with achieved = false and 0 bytes is appended for
\* it, and the batch continues with the next file.
C8_DecodeErrorReported ==
    /\ \A k \in 1..Len(results) :
          calls[k].err = "decode" =>
              results[k] = <<files[calls[k].i], basename(files[calls[k].i]), FALSE, 0>>
    /\ pc \in {"for", "filter", "emit_completed", "done"} => Len(results) = Len(calls)
    /\ Uncancelled => { calls[k].i : k \in 1..Len(calls) } = ImageIndexes

C8_Witness ==
    /\ Uncancelled
    /\ Len(calls) = 2
    /\ calls[1].err = "decode"
    /\ calls[2].err = "none"
    /\ results[1][4] = 0

\* C9: an encode, write or temporary-file error makes the file's outcome
\* achieved = false with 0 bytes; the run still attempts every remaining
\* accepted file and ends by emitting resize_completed.
C9_ErrorsStayLocal ==
    /\ \A k \in 1..Len(results) :
          calls[k].err \in {"encode", "move"} =>
              /\ results[k][3] = FALSE
              /\ results[k][4] = 0
    /\ pc = "done" => CompletedLast
    /\ Uncancelled =>
          /\ { calls[k].i : k \in 1..Len(calls) } = ImageIndexes
          /\ Len(results) = Len(calls)

C9_Witness ==
    /\ Uncancelled
    /\ Len(calls) = 2
    /\ calls[1].err \in {"encode", "move"}
    /\ calls[2].err = "none"
    /\ results[2][3] = TRUE

\* C10: on every return path of resize_image no temporary file
\* "<output_path>.temp" is left behind.
C10_NoTempLeft == Returned => temp[output_path] = NoFile

\* every call of resize_image so far returned without an exception
NoErrors == \A k \in 1..Len(calls) : calls[k].err = "none"

\* C13: after an uncancelled, error-free batch the destinations of distinct
\* accepted inputs are distinct, and the file at each outcome's destination
\* is the artefact produced for that input.
C13_DistinctOutputs ==
    (Uncancelled /\ NoErrors
        /\ \A j, k \in 1..Len(files) : j # k => files[j] # files[k]) =>
        /\ \A j, k \in 1..Len(results) :
              results[j][1] # results[k][1] => results[j][2] # results[k][2]
        /\ \A k \in 1..Len(results) : disk[results[k][2]].size = results[k][4]

\* the per-file emissions made so far
PerFileEvents ==
    CASE pc = "emit_progress" -> 2 * (Len(results) - 1)
      [] pc = "emit_file" -> 2 * Len(results) - 1
      [] OTHER -> 2 * Len(results)

\* C14: in every run, cancelled or not, results and file_processed follow
\* input order, each file's progress_updated comes just before its
\* file_processed and before every event of a later file, and
\* resize_completed is emitted exactly once, last, with exactly the outcomes
\* of the files whose file_processed was emitted.
C14_EventsInOrder ==
    /\ \A k \in 1..Len(results) : results[k][1] = files[calls[k].i]
    /\ \A k \in 1..(Len(calls) - 1) : calls[k].i < calls[k + 1].i
    /\ Len(emitted) = PerFileEvents + (IF pc = "done" THEN 1 ELSE 0)
    /\ \A k \in 1..Len(results) :
          /\ 2 * k - 1 <= PerFileEvents =>
                emitted[2 * k - 1].sig = "progress_updated"
          /\ 2 * k <= PerFileEvents =>
                /\ emitted[2 * k].sig = "file_processed"
                /\ emitted[2 * k].args =
                       <<basename(results[k][1]), results[k][3], results[k][4]>>
    /\ pc = "done" =>
          /\ emitted[Len(emitted)].sig = "resize_completed"
          /\ emitted[Len(emitted)].args[1] = results

C14_Witness ==
    /\ pc = "done"
    /\ ~running
    /\ Len(files) = 2
    /\ Len(results) = 1
    /\ Len(emitted) = 3
    /\ emitted[3].sig = "resize_completed"

\* C15: within one call the scale factor changes only by being reduced, in
\* a pass whose artefact exceeded max_bytes at quality 10; so while an
\* attempt is made at a scale below 1.0, the attempt at quality 10 exceeds
\* max_bytes at every larger scale.
C15_ScaleOnlyAfterQualityFloor ==
    /\ [][(pc = "decide" /\ scale_factor' # scale_factor) =>
             /\ scale_factor' < scale_factor
             /\ temp[output_path].quality = 10
             /\ temp[output_path].scale = scale_factor
             /\ temp[output_path].size > max_bytes]_vars
    /\ []((pc \in {"encode", "decide"} /\ scale_factor < 1000000) =>
             \A sc \in Scales :
                 sc > scale_factor => EncodedSize(img, 10, sc) > max_bytes)

C15_Witness ==
    /\ pc = "decide"
    /\ scale_factor < 1000000
    /\ temp[output_path].scale = scale_factor
    /\ quality > 10

\* C16: every encode attempt uses a quality in 10..95 that is a multiple of
\* 5 and a scale in (0, 1] that is not below 0.3.
C16_AttemptRanges ==
    /\ pc = "encode" =>
          /\ quality \in 10..95
          /\ quality % 5 = 0
          /\ scale_factor \in 300000..1000000
    /\ pc = "decide" =>
          /\ temp[output_path].quality \in 10..95
          /\ temp[output_path].quality % 5 = 0
          /\ temp[output_path].scale \in 300000..1000000

C16_Witness ==
    /\ pc = "decide"
    /\ temp[output_path].quality = 95
    /\ temp[output_path].scale < 1000000

Abs(x) == IF x < 0 THEN -x ELSE x
\* n is w * s (s in millionths) rounded to the nearest integer
IsNearest(n, w, s) == 2 * Abs(n * 1000000 - w * s) <= 1000000
\* n is w * s (s in millionths) with the fraction dropped
IsTruncated(n, w, s) == n * 1000000 <= w * s /\ w * s < (n + 1) * 1000000

\* C17 as stated: at a scale below 1.0 the image is resampled to the nearest
\* integers of width * scale and height * scale; at 1.0 it is not resampled.
C17_RoundedResample ==
    pc = "decide" =>
        IF scale_factor < 1000000
        THEN /\ IsNearest(resized_size[1], img.width, scale_factor)
             /\ IsNearest(resized_size[2], img.height, scale_factor)
        ELSE resized_size = <<img.width, img.height>> /\ resamples = 0

\* C17, amended: at a scale below 1.0 the image is resampled to
\* (int(width * scale), int(height * scale)), each dimension truncated
\* toward zero; at scale 1.0 the original image is used unresampled.
C17_TruncatedResample ==
    pc = "decide" =>
        IF scale_factor < 1000000
        THEN /\ IsTruncated(resized_size[1], img.width, scale_factor)
             /\ IsTruncated(resized_size[2], img.height, scale_factor)
             /\ resamples > 0
        ELSE resized_size = <<img.width, img.height>> /\ resamples = 0

C17_Witness ==
    /\ pc = "decide"
    /\ scale_factor < 1000000
    /\ IsTruncated(resized_size[1], img.width, scale_factor)
    /\ ~IsNearest(resized_size[1], img.width, scale_factor)

\* C18: the percentage emitted after the j-th accepted file is
\* round(j / total_accepted * 100), total_accepted being the number of
\* files with a supported extension.
C18_ProgressOverAccepted ==
    LET P == ProgressValues(emitted)
        M == Cardinality(ImageIndexes)
    IN \A j \in 1..Len(P) : P[j] = (2 * j * 100 + M) \div (2 * M)

\* C11: after any sequence of slider changes the stored band (min, max) has
\* min in 50..900, max in 100..2048, min > 0 and min <= max - 100.
C11_BandWithinSliderRanges ==
    /\ app_target_size_kb[1] \in 50..900
    /\ app_target_size_kb[2] \in 100..2048
    /\ app_target_size_kb[1] > 0
    /\ app_target_size_kb[1] <= app_target_size_kb[2] - 100

\* C12: a new ResizeWorker is never started while the previously started
\* one is still running.
C12_OneActiveJob == ~overlapped

\* C19: the band of a worker changes only when a new worker is created;
\* slider changes during a run leave the band the worker passes to
\* resize_image as it was at job creation.
C19_BandFixedPerJob == [][jobs' = jobs => target_size_kb' = target_size_kb]_vars

C19_Witness ==
    /\ pc = "decide"
    /\ idx = 2
    /\ Len(results) = 1
    /\ target_size_kb # app_target_size_kb

====
